---- MODULE Spec2Model ----
(***************************************************************************)
(* visa-bot: a one-shot slot checker (main.py), the booking-service client *)
(* (visa_checker.py), the Telegram notifier (telegram_notifier.py) and the *)
(* command responder (telegram_handler.py), as one state machine.          *)
(*                                                                         *)
(* Every await of the source is one action.  HTTP responses, the clock and *)
(* the fetched chat updates are inputs, drawn from the sets given to the   *)
(* actions.  Message texts are kept as records of what they say.           *)
(*                                                                         *)
(* main.py lines 108-109 stand at column 0 between two parts of main()'s   *)
(* body; they are read here as statements of that body, in their place.    *)
(***************************************************************************)
EXTENDS Integers, Sequences, FiniteSets, TLC

(* ---------------------------------------------------------------- bounds *)
MaxCountries == 2      \* longest configured target-country list
MaxCenters   == 2      \* longest center list in a checkslots response
MaxUpdates   == 2      \* longest update list fetched by the responder
MaxUpdateId  == 2      \* update ids are drawn from 1..MaxUpdateId

VARIABLES
  \* ---- main.py: one Slot Checker Run
  countries,          \* config["target_countries"]
  daily_report_hour,  \* config["daily_report_hour"]
  pc,                 \* position in main()
  idx,                \* 1-based position of the sweep loop in countries
  results,            \* results: list of CountryResult
  jdx,                \* 1-based position of the notification loop in results
  sent,               \* every sendMessage request issued, in order
  sendFailed,         \* the log holds a failed-send entry
  clock,              \* the UTC instant read by is_daily_report_time
  report,             \* what is_daily_report_time returned
  \* ---- visa_checker.py: the VFSChecker instance in use
  chkId,              \* number of VFSChecker instances constructed so far
  target,             \* self.target
  token,              \* self.token
  cpc,                \* position in check_available_slots
  centers,            \* centers: the normalised center list
  k,                  \* 1-based position of the center loop
  available,          \* available: list of SlotRecord
  raised,             \* the exception check_available_slots raised
  calls,              \* the booking-service requests this instance issued
  \* ---- telegram_handler.py: one Command Responder Run
  hpc,                \* position in the responder's main()
  remaining,          \* updates of the fetched list not yet iterated
  update,             \* the update the loop is at
  processed,          \* processed: set of update ids
  route,              \* the branch the current update took
  sweepIdx,           \* position of the /all loop in target_countries
  dispatched,         \* the updates that passed the filter, in order
  replies,            \* the sendMessage requests issued for the current update
  checks              \* the countries whose check the current update started

mainVars == <<countries, daily_report_hour, pc, idx, results, jdx, sent,
              sendFailed, clock, report>>
chkVars  == <<chkId, target, token, cpc, centers, k, available, raised, calls>>
cmdVars  == <<hpc, remaining, update, processed, route, sweepIdx, dispatched,
              replies, checks>>
vars     == <<mainVars, chkVars, cmdVars>>

(* --------------------------------------------------------------- helpers *)
Range(s) == {s[i] : i \in 1..Len(s)}

SeqsUpTo(S, n) == UNION {[1..m -> S] : m \in 0..n}

Prefix(s, n) == SubSeq(s, 1, IF n < Len(s) THEN n ELSE Len(s))

RECURSIVE SumLens(_)
SumLens(s) == IF s = <<>> THEN 0 ELSE Head(s) + SumLens(Tail(s))

(* ------------------------------------------------- visa_checker.py: data *)
ORIGIN == "vnm"

\* config["target_countries"] of the responder, with TARGET_COUNTRIES=fra,ita
CMD_TARGETS == <<"fra", "ita">>

\* COUNTRY_NAMES.get(code, code.upper())
CountryName(code) ==
  CASE code = "vnm" -> "Viet Nam"
    [] code = "fra" -> "Phap"
    [] code = "ita" -> "Y"
    [] code = "esp" -> "Tay Ban Nha"
    [] code = "prt" -> "Bo Dao Nha"
    [] code = "usa" -> "USA"
    [] OTHER        -> code

\* len() of the display names above (the source spells them with diacritics)
NameLen(name) ==
  CASE name = "Viet Nam"    -> 8
    [] name = "Phap"        -> 4
    [] name = "Y"           -> 1
    [] name = "Tay Ban Nha" -> 11
    [] name = "Bo Dao Nha"  -> 10
    [] OTHER                -> 3

portal_url(tgt) == <<"https://visa.vfsglobal.com", ORIGIN, "en", tgt>>

UNKNOWN_NAME == "Khong ro"

NoToken == [by |-> 0]

\* A JSON value that is no object (a string, a number, null).
NonDict == [nondict |-> TRUE]
IsDict(c) == "nondict" \notin DOMAIN c

\* center.get(key) is truthy: the key is present and its value is not empty.
HasStr(c, key) == key \in DOMAIN c /\ c[key] # ""
HasSeq(c, key) == key \in DOMAIN c /\ c[key] # <<>>

\* center.get("centerName") or center.get("name")
\*   or center.get("locationName") or "Khong ro"
CenterName(c) ==
  IF HasStr(c, "centerName") THEN c.centerName
  ELSE IF HasStr(c, "name") THEN c.name
  ELSE IF HasStr(c, "locationName") THEN c.locationName
  ELSE UNKNOWN_NAME

\* center.get("slots") or center.get("availableSlots") or []
Mut_CenterSlots_PrimaryOnly(c) == IF HasSeq(c, "slots") THEN c.slots ELSE <<>>
CenterSlots(c) ==
  IF HasSeq(c, "slots") THEN c.slots
  ELSE IF HasSeq(c, "availableSlots") THEN c.availableSlots
  ELSE <<>>

\* center.get("earliestDate") or center.get("firstAvailableDate") or ""
CenterEarliest(c) ==
  IF HasStr(c, "earliestDate") THEN c.earliestDate
  ELSE IF HasStr(c, "firstAvailableDate") THEN c.firstAvailableDate
  ELSE ""

\* if slots or earliest:
Mut_Indicates_And(c) == CenterSlots(c) # <<>> /\ CenterEarliest(c) # ""
Indicates(c) == CenterSlots(c) # <<>> \/ CenterEarliest(c) # ""

\* centers = raw if isinstance(raw, list) else [raw]
NormaliseRaw(raw) == IF raw.isList THEN raw.body ELSE <<raw.body>>

\* _get_earliest_dates: what a checkavailability response yields. A list
\* body is filtered; the "dates" value of an object body is handed back as it
\* is; everything else (no answer, a non-200 status, a body that is no JSON,
\* any other JSON value) gives [].
get_earliest_dates(resp) ==
  CASE resp.kind = "list" -> SelectSeq(resp.data, LAMBDA d : d # "")
    [] resp.kind = "dict" -> resp.data
    [] OTHER              -> <<>>

\* Whether the value handed back is a list. The "dates" value of an object
\* body may be any JSON value; a JSON object is kept as the sequence of its
\* entries, and dates[0] on it raises KeyError(0).
IsList(resp) == resp.kind = "dict" => resp.list

\* The SlotRecord appended for a center with indicated availability.
SlotRecord(c, dates, tgt) ==
  [center        |-> CenterName(c),
   earliest_date |-> IF CenterEarliest(c) # "" THEN CenterEarliest(c)
                     ELSE IF dates # <<>> THEN dates[1] ELSE "",
   slots         |-> IF dates # <<>> THEN dates ELSE CenterSlots(c),
   booking_url   |-> portal_url(tgt)]

(* ------------------------------------------- exceptions and their str(e) *)
\* An exception is its class and its message; str(e) is the message.
Exc(cls, msg) == [cls |-> cls, msg |-> msg]

MSG_LOGIN_FAILED   == "Dang nhap that bai (HTTP 401): Kiem tra lai VFS_USERNAME / VFS_PASSWORD"
MSG_CENTERS_FAILED == "Loi khi kiem tra slot: HTTP 500"
MSG_NO_TOKEN       == "Khong lay duoc token. Response: {}"
MSG_NO_TOKEN_LONG  == "Khong lay duoc token. Response: {...600 characters...}"
MSG_CONNECT        == "All connection attempts failed"

\* len() of a message text
StrLen(msg) ==
  CASE msg = ""                 -> 0
    [] msg = "0"                -> 1
    [] msg = MSG_LOGIN_FAILED   -> 71
    [] msg = MSG_CENTERS_FAILED -> 31
    [] msg = MSG_NO_TOKEN       -> 34
    [] msg = MSG_NO_TOKEN_LONG  -> 632
    [] msg = MSG_CONNECT        -> 30

\* What the transport raises when a request does not complete: a timeout
\* (httpx gives it an empty message) or a connection error.
TransportErrors == {Exc("ReadTimeout", ""), Exc("ConnectError", MSG_CONNECT)}

NoExc == Exc("", "")

(* ------------------------------------- booking-service responses (inputs) *)
\* What POST user/login can answer.
LoginOutcomes ==
  {[kind |-> "token"], [kind |-> "http_error"],
   [kind |-> "no_token", msg |-> MSG_NO_TOKEN],
   [kind |-> "no_token", msg |-> MSG_NO_TOKEN_LONG]}
  \cup {[kind |-> "transport", exc |-> e] : e \in TransportErrors}

NameKeys     == {"centerName", "name", "locationName"}
SlotKeys     == {"slots", "availableSlots"}
EarliestKeys == {"earliestDate", "firstAvailableDate"}

\* The non-empty value each field carries in the sample payloads.
SampleName ==
  [key \in NameKeys |->
     CASE key = "centerName" -> "Hanoi" [] key = "name" -> "HCMC"
       [] OTHER -> "Da Nang"]
SampleSlots ==
  [key \in SlotKeys |->
     IF key = "slots" THEN <<"2025-06-02">> ELSE <<"2025-06-03", "2025-06-09">>]
SampleEarliest ==
  [key \in EarliestKeys |->
     IF key = "earliestDate" THEN "2025-06-01" ELSE "2025-06-05"]

\* Every choice of present keys among `keys`, each present key either empty
\* or carrying its sample value.
Parts(keys, sample, empty) ==
  UNION {{[key \in S |-> IF key \in T THEN sample[key] ELSE empty] :
            T \in SUBSET S} : S \in SUBSET keys}

\* Center objects carrying any subset of the seven recognised fields.
AllPayloads ==
  {n @@ s @@ e : n \in Parts(NameKeys, SampleName, ""),
                 s \in Parts(SlotKeys, SampleSlots, <<>>),
                 e \in Parts(EarliestKeys, SampleEarliest, "")}

\* Elements of the center lists: objects with and without availability
\* under the primary and the other field names, and one non-object.
ListCenters ==
  {NonDict,
   [centerName |-> "Hanoi", slots |-> <<>>, earliestDate |-> ""],
   [centerName |-> "Hanoi", slots |-> <<>>, earliestDate |-> "2025-06-01"],
   [name |-> "HCMC", availableSlots |-> <<"2025-06-03", "2025-06-09">>],
   [locationName |-> "Da Nang"],
   [slots |-> <<"2025-06-02">>, firstAvailableDate |-> "2025-06-05"]}

\* checkslots bodies: a single value, or a list of up to MaxCenters values.
CheckRaws ==
  {[isList |-> FALSE, body |-> c] : c \in AllPayloads \cup {NonDict}}
  \cup {[isList |-> TRUE, body |-> s] : s \in SeqsUpTo(ListCenters, MaxCenters)}

\* checkavailability answers: no answer, a non-200 status, a JSON list
\* (with an empty entry), an object with or without "dates", another value.
\* The "dates" value of an object body is a list of strings or, unexpectedly,
\* an object itself (dates mapped to counts), empty or not. The slot fields
\* of a center are lists of strings; names and earliest dates are strings.
CheckDetails ==
  {[kind |-> "exception"], [kind |-> "non200"], [kind |-> "malformed"],
   [kind |-> "list", data |-> <<>>],
   [kind |-> "list", data |-> <<"", "2025-06-04">>],
   [kind |-> "dict", list |-> TRUE, data |-> <<"2025-06-07", "2025-06-08">>],
   [kind |-> "dict", list |-> FALSE, data |-> <<"2025-06-10: 4">>],
   [kind |-> "dict", list |-> FALSE, data |-> <<>>],
   [kind |-> "dict_nodates"], [kind |-> "other"]}

(* ------------------------------------------- visa_checker.py: VFSChecker *)
\* A request of this instance, as the history keeps it; a detail query is
\* kept with the answer it got.
NoAnswer == [kind |-> "not kept"]
Call(op, auth, center, answer) ==
  [chk |-> chkId, op |-> op, auth |-> auth, center |-> center,
   answer |-> answer]

\* VFSChecker(...): a new instance, which has issued no request.
Mut_NewChecker_KeepToken(tgt) ==
  /\ chkId' = chkId + 1
  /\ target' = tgt
  /\ token' = token
  /\ centers' = <<>>
  /\ k' = 0
  /\ available' = <<>>
  /\ raised' = NoExc
  /\ calls' = <<>>
NewChecker(tgt) ==
  /\ chkId' = chkId + 1
  /\ target' = tgt
  /\ token' = NoToken
  /\ centers' = <<>>
  /\ k' = 0
  /\ available' = <<>>
  /\ raised' = NoExc
  /\ calls' = <<>>

Raise(e) ==
  /\ cpc' = "raised"
  /\ raised' = e

\* self.token = await self._login(client), with its except clause.
Login(outcomes) ==
  /\ cpc = "login"
  /\ calls' = Append(calls, Call("login", NoToken, "", NoAnswer))
  /\ \E o \in outcomes :
       \/ /\ o.kind = "token"
          /\ token' = [by |-> chkId]
          /\ cpc' = "centers"
          /\ UNCHANGED raised
       \/ /\ o.kind = "http_error"
          /\ Raise(Exc("ConnectionError", MSG_LOGIN_FAILED))
          /\ UNCHANGED token
       \/ /\ o.kind = "no_token"
          /\ Raise(Exc("ValueError", o.msg))
          /\ UNCHANGED token
       \/ /\ o.kind = "transport"
          /\ Raise(o.exc)
          /\ UNCHANGED token
  /\ UNCHANGED <<chkId, target, centers, k, available>>

\* raw = await self._get_centers(client), with its except clause, and the
\* normalisation of raw.
GetCenters(raws) ==
  /\ cpc = "centers"
  /\ calls' = Append(calls, Call("checkslots", token, "", NoAnswer))
  /\ \/ \E raw \in raws :
          /\ centers' = NormaliseRaw(raw)
          /\ k' = 1
          /\ cpc' = "loop"
          /\ UNCHANGED raised
     \/ /\ Raise(Exc("ConnectionError", MSG_CENTERS_FAILED))
        /\ UNCHANGED <<centers, k>>
     \/ \E e \in TransportErrors :
          /\ Raise(e)
          /\ UNCHANGED <<centers, k>>
  /\ UNCHANGED <<chkId, target, token, available>>

\* One iteration of "for center in centers", the detail query included.
CenterStep(details) ==
  /\ cpc = "loop"
  /\ k <= Len(centers)
  /\ LET c == centers[k] IN
       IF IsDict(c) /\ Indicates(c)
       THEN \E resp \in details :
              LET dates == get_earliest_dates(resp) IN
                /\ calls' = Append(calls,
                     Call("checkavailability", token, CenterName(c), resp))
                /\ IF CenterEarliest(c) = "" /\ dates # <<>> /\ ~IsList(resp)
                   THEN \* dates[0] raises, outside any try
                        /\ Raise(Exc("KeyError", "0"))
                        /\ UNCHANGED <<available, k>>
                   ELSE /\ available' = Append(available,
                                          SlotRecord(c, dates, target))
                        /\ k' = k + 1
                        /\ UNCHANGED <<cpc, raised>>
       ELSE /\ k' = k + 1
            /\ UNCHANGED <<calls, available, cpc, raised>>
  /\ UNCHANGED <<chkId, target, token, centers>>

\* return available
ReturnAvailable ==
  /\ cpc = "loop"
  /\ k > Len(centers)
  /\ cpc' = "returned"
  /\ UNCHANGED <<chkId, target, token, centers, k, available, raised, calls>>

(* ------------------------------------------------------------ idle parts *)
MainIdle ==
  /\ countries = <<>>
  /\ daily_report_hour = 12
  /\ pc = "idle"
  /\ idx = 0
  /\ results = <<>>
  /\ jdx = 0
  /\ sent = <<>>
  /\ sendFailed = FALSE
  /\ clock = [hour |-> 0, minute |-> 0]
  /\ report = FALSE

ChkIdle ==
  /\ chkId = 0
  /\ target = ""
  /\ token = NoToken
  /\ cpc = "idle"
  /\ centers = <<>>
  /\ k = 0
  /\ available = <<>>
  /\ raised = NoExc
  /\ calls = <<>>

NoUpdate == [update_id |-> 0, chat |-> "", text |-> <<>>]

CmdIdle ==
  /\ hpc = "idle"
  /\ remaining = 0
  /\ update = NoUpdate
  /\ processed = {}
  /\ route = "none"
  /\ sweepIdx = 0
  /\ dispatched = <<>>
  /\ replies = <<>>
  /\ checks = <<>>

(* ------------------------------------------ telegram_notifier.py: texts *)
PREVIEW_CAP == 5
ERROR_CUT   == 500

TestText == [kind |-> "test"]

\* The lines send_slots_found writes for the i-th slot of its list.
SlotLines(i, slot) ==
  <<[line |-> "center", n |-> i, text |-> slot.center]>>
  \o (IF slot.earliest_date # ""
      THEN <<[line |-> "earliest", n |-> i, text |-> slot.earliest_date]>>
      ELSE <<>>)
  \o (IF slot.slots # <<>>
      THEN <<[line |-> "dates", n |-> i,
              preview |-> Prefix(slot.slots, PREVIEW_CAP),
              more |-> IF Len(slot.slots) > PREVIEW_CAP
                       THEN Len(slot.slots) - PREVIEW_CAP ELSE 0]>>
      ELSE <<>>)
  \o <<[line |-> "link", n |-> i, url |-> slot.booking_url]>>

RECURSIVE AllSlotLines(_, _)
AllSlotLines(slots, i) ==
  IF i > Len(slots) THEN <<>>
  ELSE SlotLines(i, slots[i]) \o AllSlotLines(slots, i + 1)

\* send_slots_found: the text it sends.
SlotsFoundText(slots, origin_name, target_name) ==
  [kind |-> "slots_found", origin_name |-> origin_name,
   target_name |-> target_name, lines |-> AllSlotLines(slots, 1)]

\* One line of main's error_summary: "* name: error".
SummaryLineLen(r) == 2 + NameLen(r.name) + 2 + StrLen(r.error.msg)

\* Where the name of line i ends in the joined summary (1 separator a line).
NameEnd(errors, i) ==
  SumLens([j \in 1..(i - 1) |-> SummaryLineLen(errors[j]) + 1])
  + 2 + NameLen(errors[i].name)

\* send_error: the text it sends holds error_msg[:500]; the names that stand
\* in that part, in order.
NamesWithinCut(errors) ==
  LET kept == SelectSeq([i \in 1..Len(errors) |-> i],
                        LAMBDA i : NameEnd(errors, i) <= ERROR_CUT)
  IN [i \in 1..Len(kept) |-> errors[kept[i]].name]

ErrorText(errors, context) ==
  [kind |-> "error", context |-> context, names |-> NamesWithinCut(errors)]

\* TelegramNotifier._send: the request is issued; a failure (an error
\* status or an exception) is logged and swallowed.
NotifierSend(msg) ==
  /\ sent' = Append(sent, msg)
  /\ \E ok \in BOOLEAN : sendFailed' = (sendFailed \/ ~ok)

(* ----------------------------------------------------- main.py: the run *)
VN_TZ_HOURS    == 7
REPORT_MINUTES == 30

\* datetime.now(VN_TZ), from the UTC instant `now`.
NowVN(now) == [hour |-> (now.hour + VN_TZ_HOURS) % 24, minute |-> now.minute]

Mut_is_daily_report_time_Inclusive(daily_hour, now) ==
  NowVN(now).hour = daily_hour /\ NowVN(now).minute <= REPORT_MINUTES
is_daily_report_time(daily_hour, now) ==
  NowVN(now).hour = daily_hour /\ NowVN(now).minute < REPORT_MINUTES

\* None, and a str value.
None   == [none |-> TRUE, msg |-> ""]
Str(m) == [none |-> FALSE, msg |-> m]
\* Python's truth value of a None-or-str.
Truthy(x) == ~x.none /\ x.msg # ""

\* check_one_country: the dict it returns, from how the check ended.
CountryResult(country) ==
  [country    |-> country,
   name       |-> CountryName(country),
   slots      |-> IF cpc = "returned" THEN available ELSE <<>>,
   portal_url |-> portal_url(country),
   error      |-> IF cpc = "returned" THEN None ELSE Str(raised.msg),
   checker    |-> [id |-> chkId, origin |-> ORIGIN, target |-> country]]

\* send_combined_daily_report: one status line per result.
DigestLine(r) ==
  IF Truthy(r.error) THEN [name |-> r.name, status |-> "error", earliest |-> ""]
  ELSE IF r.slots # <<>>
       THEN [name |-> r.name, status |-> "slots", earliest |-> r.slots[1].earliest_date]
       ELSE [name |-> r.name, status |-> "no_slots", earliest |-> ""]

Mut_DigestText_SkipErrors(rs) ==
  LET ok == SelectSeq(rs, LAMBDA r : ~Truthy(r.error))
  IN [kind |-> "digest", lines |-> [i \in 1..Len(ok) |-> DigestLine(ok[i])],
      has_slots |-> \E i \in 1..Len(ok) : ok[i].slots # <<>>]
DigestText(rs) ==
  [kind |-> "digest", lines |-> [i \in 1..Len(rs) |-> DigestLine(rs[i])],
   has_slots |-> \E i \in 1..Len(rs) : ~Truthy(rs[i].error) /\ rs[i].slots # <<>>]

\* await notifier.send_test() (main.py line 108)
SendTest ==
  /\ pc = "start"
  /\ NotifierSend(TestText)
  /\ pc' = "sweep"
  /\ UNCHANGED <<countries, daily_report_hour, idx, results, jdx, clock, report>>
  /\ UNCHANGED chkVars

\* for country in countries: check_one_country(...) up to its await
CheckOneCountryCall ==
  /\ pc = "sweep"
  /\ idx <= Len(countries)
  /\ NewChecker(countries[idx])
  /\ cpc' = "login"
  /\ pc' = "checking"
  /\ UNCHANGED <<countries, daily_report_hour, idx, results, jdx, sent,
                 sendFailed, clock, report>>

\* check_one_country from its await on: the try/except, results.append
\* and the pause.
Mut_CheckOneCountryReturn_NoExcept ==
  /\ pc = "checking"
  /\ cpc \in {"returned", "raised"}
  /\ IF cpc = "raised"
     THEN pc' = "crashed" /\ UNCHANGED <<results, idx>>
     ELSE /\ results' = Append(results, CountryResult(countries[idx]))
          /\ idx' = idx + 1
          /\ pc' = "sweep"
  /\ cpc' = "idle"
  /\ UNCHANGED <<countries, daily_report_hour, jdx, sent, sendFailed, clock, report>>
  /\ UNCHANGED <<chkId, target, token, centers, k, available, raised, calls>>
CheckOneCountryReturn ==
  /\ pc = "checking"
  /\ cpc \in {"returned", "raised"}
  /\ results' = Append(results, CountryResult(countries[idx]))
  /\ idx' = idx + 1
  /\ pc' = "sweep"
  /\ cpc' = "idle"
  /\ UNCHANGED <<countries, daily_report_hour, jdx, sent, sendFailed, clock, report>>
  /\ UNCHANGED <<chkId, target, token, centers, k, available, raised, calls>>

\* The sweep loop ends.
SweepEnd ==
  /\ pc = "sweep"
  /\ idx > Len(countries)
  /\ pc' = "slots"
  /\ jdx' = 1
  /\ UNCHANGED <<countries, daily_report_hour, idx, results, sent, sendFailed,
                 clock, report>>
  /\ UNCHANGED chkVars

\* One iteration of "for r in results" (main.py lines 123-134).
Mut_NotifySlots_FirstOnly ==
  /\ pc = "slots"
  /\ jdx <= Len(results)
  /\ LET r == results[jdx] IN
       IF r.slots # <<>> /\ jdx = 1
       THEN NotifierSend(SlotsFoundText(r.slots, CountryName(r.checker.origin),
                                        CountryName(r.checker.target)))
       ELSE UNCHANGED <<sent, sendFailed>>
  /\ jdx' = jdx + 1
  /\ UNCHANGED <<countries, daily_report_hour, pc, idx, results, clock, report>>
  /\ UNCHANGED chkVars
NotifySlots ==
  /\ pc = "slots"
  /\ jdx <= Len(results)
  /\ LET r == results[jdx] IN
       IF ~Truthy(r.error) /\ r.slots # <<>>
       THEN NotifierSend(SlotsFoundText(r.slots, CountryName(r.checker.origin),
                                        CountryName(r.checker.target)))
       ELSE UNCHANGED <<sent, sendFailed>>
  /\ jdx' = jdx + 1
  /\ UNCHANGED <<countries, daily_report_hour, pc, idx, results, clock, report>>
  /\ UNCHANGED chkVars

ERROR_CONTEXT == "kiem tra da quoc gia"

\* errors = [r for r in results if r["error"]] and the send of their summary.
NotifyErrors ==
  /\ pc = "slots"
  /\ jdx > Len(results)
  /\ LET errors == SelectSeq(results, LAMBDA r : Truthy(r.error)) IN
       IF errors # <<>>
       THEN NotifierSend(ErrorText(errors, ERROR_CONTEXT))
       ELSE UNCHANGED <<sent, sendFailed>>
  /\ pc' = "digest"
  /\ UNCHANGED <<countries, daily_report_hour, idx, results, jdx, clock, report>>
  /\ UNCHANGED chkVars

\* What a bare client.post can do: deliver, get an error status back (not
\* looked at), or raise.
PostOutcomes == {"delivered", "http_error", "exception"}

\* if is_daily_report_time(...): await send_combined_daily_report(...), whose
\* post is not inside any try.
DailyReport(times) ==
  /\ pc = "digest"
  /\ \E now \in times :
       /\ clock' = now
       /\ report' = is_daily_report_time(daily_report_hour, now)
       /\ IF is_daily_report_time(daily_report_hour, now)
          THEN /\ sent' = Append(sent, DigestText(results))
               /\ \E o \in PostOutcomes :
                    pc' = IF o = "exception" THEN "crashed" ELSE "done"
          ELSE /\ pc' = "done"
               /\ UNCHANGED sent
  /\ UNCHANGED <<countries, daily_report_hour, idx, results, jdx, sendFailed>>
  /\ UNCHANGED chkVars

(* ------------------------------------------- inputs of a Slot Checker Run *)
TargetCodes == {"fra", "ita"}

\* checkslots bodies of a run: no center, one center with an earliest date
\* only, one center without availability, two centers with availability.
RunRaws ==
  {[isList |-> TRUE, body |-> <<>>],
   [isList |-> FALSE,
    body |-> [centerName |-> "Hanoi", slots |-> <<>>, earliestDate |-> "2025-06-01"]],
   [isList |-> TRUE,
    body |-> <<[centerName |-> "Hanoi", slots |-> <<>>, earliestDate |-> ""]>>],
   [isList |-> TRUE,
    body |-> <<[name |-> "HCMC", availableSlots |-> <<"2025-06-03", "2025-06-09">>],
               [centerName |-> "Hanoi", slots |-> <<>>, earliestDate |-> "2025-06-01"]>>]}

\* checkavailability answers of a run: none, or six dates.
RunDetails ==
  {[kind |-> "exception"],
   [kind |-> "list",
    data |-> <<"2025-06-10", "2025-06-11", "2025-06-12", "2025-06-13",
               "2025-06-14", "2025-06-15">>]}

\* UTC instants the run can read: around 12:00-12:30 in UTC+7, and 12:10 UTC.
RunTimes ==
  {[hour |-> 4, minute |-> 59], [hour |-> 5, minute |-> 0],
   [hour |-> 5, minute |-> 29], [hour |-> 5, minute |-> 30],
   [hour |-> 12, minute |-> 10]}

Init ==
  /\ countries \in SeqsUpTo(TargetCodes, MaxCountries)
  /\ daily_report_hour = 12
  /\ pc = "start"
  /\ idx = 1
  /\ results = <<>>
  /\ jdx = 0
  /\ sent = <<>>
  /\ sendFailed = FALSE
  /\ clock = [hour |-> 0, minute |-> 0]
  /\ report = FALSE
  /\ ChkIdle
  /\ CmdIdle

Next ==
  \/ SendTest /\ UNCHANGED cmdVars
  \/ CheckOneCountryCall /\ UNCHANGED cmdVars
  \/ Login(LoginOutcomes) /\ UNCHANGED <<mainVars, cmdVars>>
  \/ GetCenters(RunRaws) /\ UNCHANGED <<mainVars, cmdVars>>
  \/ CenterStep(RunDetails) /\ UNCHANGED <<mainVars, cmdVars>>
  \/ ReturnAvailable /\ UNCHANGED <<mainVars, cmdVars>>
  \/ CheckOneCountryReturn /\ UNCHANGED cmdVars
  \/ SweepEnd /\ UNCHANGED cmdVars
  \/ NotifySlots /\ UNCHANGED cmdVars
  \/ NotifyErrors /\ UNCHANGED cmdVars
  \/ DailyReport(RunTimes) /\ UNCHANGED cmdVars

Spec == Init /\ [][Next]_vars

(* --------------------------------------- claims on the Slot Checker Run *)
SweepOver == pc \in {"slots", "digest", "done", "crashed"}
RunOver   == pc \in {"done", "crashed"}

\* The check of result r ended in the except clause of check_one_country.
CheckFailed(r) == ~r.error.none

Kind(kind) == SelectSeq(sent, LAMBDA m : m.kind = kind)

\* C1: a run over N configured countries starts one check per country, one
\* at a time and in configured order, whether the previous check returned or
\* raised: while the sweep runs the results are those of the countries before
\* the current one, the only check in progress is the current country's, and
\* once the sweep is over there are N checks started and N results, the i-th
\* for the i-th country.
C1_SweepChecksEachCountryInOrder ==
  /\ Len(results) = (IF SweepOver THEN Len(countries) ELSE idx - 1)
  /\ \A i \in 1..Len(results) : results[i].country = countries[i]
  /\ chkId = Len(results) + (IF pc = "checking" THEN 1 ELSE 0)
  /\ \A i \in 1..Len(results) : results[i].checker.id = i
  /\ cpc # "idle" => pc = "checking" /\ target = countries[idx]

\* C1 witness: a finished run over two countries whose first check raised
\* and whose second found slots.
C1_Witness ==
  /\ pc = "done"
  /\ Len(countries) = 2
  /\ CheckFailed(results[1])
  /\ ~CheckFailed(results[2]) /\ results[2].slots # <<>>

\* C2: the result of a check that failed, whatever the error's message,
\* carries a non-empty error and no slots, and its country is shown as an
\* error in the digest.
C2_FailedCheckCarriesError ==
  /\ \A i \in 1..Len(results) :
       CheckFailed(results[i]) =>
         Truthy(results[i].error) /\ results[i].slots = <<>>
  /\ \A m \in Range(Kind("digest")) : \A i \in 1..Len(m.lines) :
       CheckFailed(results[i]) => m.lines[i].status = "error"

\* The run's time lies in the digest window: the UTC+7 minute of the day is
\* one of the first thirty of the configured hour.
InWindow(now) ==
  LET vnMinute == (now.hour * 60 + now.minute + 7 * 60) % (24 * 60)
  IN vnMinute \in (daily_report_hour * 60)..(daily_report_hour * 60 + 29)

\* C5: a run whose time is inside the digest window emits one digest, as its
\* last message and after all countries were checked, with one status line
\* per configured country in configured order; a run whose time is outside
\* the window emits none; no run emits two.
C5_OneDigestInWindow ==
  /\ Len(Kind("digest")) <= 1
  /\ Kind("digest") # <<>> => RunOver
  /\ RunOver =>
       IF InWindow(clock)
       THEN /\ Len(Kind("digest")) = 1
            /\ sent[Len(sent)].kind = "digest"
            /\ Len(results) = Len(countries)
            /\ LET lines == sent[Len(sent)].lines IN
                 /\ Len(lines) = Len(countries)
                 /\ \A i \in 1..Len(lines) :
                      /\ lines[i].name = CountryName(countries[i])
                      /\ lines[i].status \in {"slots", "no_slots", "error"}
       ELSE Kind("digest") = <<>>

\* C5 witness: a finished run inside the window over two countries, one
\* failed and one without slots, with its digest sent.
C5_Witness ==
  /\ pc = "done"
  /\ InWindow(clock)
  /\ Len(countries) = 2
  /\ Truthy(results[1].error)
  /\ results[2].slots = <<>> /\ ~CheckFailed(results[2])
  /\ Len(Kind("digest")) = 1

\* C8: once the run is over it has sent one combined error message if some
\* country's check failed and none otherwise, and that message names every
\* failed country in configured order; the message is sent only after all
\* countries were checked.
C8_OneCombinedErrorMessage ==
  LET failed == SelectSeq(results, CheckFailed)
      msgs   == Kind("error")
  IN /\ Len(msgs) <= 1
     /\ msgs # <<>> => SweepOver
     /\ RunOver =>
          /\ Len(msgs) = (IF failed # <<>> THEN 1 ELSE 0)
          /\ msgs # <<>> =>
               msgs[1].names = [i \in 1..Len(failed) |-> failed[i].name]

\* Results whose slot-found message is already out.
Notified ==
  IF pc = "slots" THEN SubSeq(results, 1, jdx - 1)
  ELSE IF pc \in {"digest", "done", "crashed"} THEN results ELSE <<>>

\* The message lists the records of r: a center line for each, and the
\* earliest date of each record that has one.
ListsRecords(m, r) ==
  /\ m.target_name = r.name
  /\ Len(SelectSeq(m.lines, LAMBDA l : l.line = "center")) = Len(r.slots)
  /\ \A n \in 1..Len(r.slots) :
       /\ \E l \in Range(m.lines) :
            l.line = "center" /\ l.n = n /\ l.text = r.slots[n].center
       /\ r.slots[n].earliest_date # "" =>
            \E l \in Range(m.lines) :
              l.line = "earliest" /\ l.n = n /\ l.text = r.slots[n].earliest_date

\* C9: the 'slots found' messages sent so far are one per country whose
\* result has a non-empty slot list, in configured order, each naming its
\* country and listing its records; countries with an empty slot list or an
\* error have none.
C9_OneSlotsMessagePerCountryWithSlots ==
  LET withSlots == SelectSeq(Notified, LAMBDA r : r.slots # <<>>)
      msgs      == Kind("slots_found")
  IN /\ Len(msgs) = Len(withSlots)
     /\ \A i \in 1..Len(msgs) : ListsRecords(msgs[i], withSlots[i])

\* C9 witness: a finished run over two countries, the first with exactly one
\* SlotRecord (Hanoi, 2025-06-01, no dates) and the second failed: one
\* message, naming that center and date.
C9_Witness ==
  /\ pc = "done"
  /\ Len(countries) = 2
  /\ Len(results[1].slots) = 1
  /\ results[1].slots[1].center = "Hanoi"
  /\ results[1].slots[1].earliest_date = "2025-06-01"
  /\ results[1].slots[1].slots = <<>>
  /\ CheckFailed(results[2])
  /\ Len(Kind("slots_found")) = 1

\* C10: no failure of a send ends the run: the run never ends by an exception.
C10_SendFailureNeverEndsRun == pc # "crashed"

\* C14: every message a run sends is a slots-found message, the combined
\* error message or the digest; and a finished run in which no country has
\* slots, no check failed and the time read is outside the digest window has
\* sent no message.
C14_NothingToReportNothingSent ==
  /\ \A i \in 1..Len(sent) : sent[i].kind \in {"slots_found", "error", "digest"}
  /\ (/\ RunOver
      /\ \A i \in 1..Len(results) :
           results[i].slots = <<>> /\ ~CheckFailed(results[i])
      /\ ~InWindow(clock))
     => sent = <<>>

(* --------------------- one call of check_available_slots, any responses *)
InitCheck ==
  /\ MainIdle
  /\ CmdIdle
  /\ chkId = 1
  /\ target \in {"fra", "usa"}
  /\ token = NoToken
  /\ cpc = "login"
  /\ centers = <<>>
  /\ k = 0
  /\ available = <<>>
  /\ raised = NoExc
  /\ calls = <<>>

NextCheck ==
  \/ Login(LoginOutcomes) /\ UNCHANGED <<mainVars, cmdVars>>
  \/ GetCenters(CheckRaws) /\ UNCHANGED <<mainVars, cmdVars>>
  \/ CenterStep(CheckDetails) /\ UNCHANGED <<mainVars, cmdVars>>
  \/ ReturnAvailable /\ UNCHANGED <<mainVars, cmdVars>>

SpecCheck == InitCheck /\ [][NextCheck]_vars

\* The centers of the payload that indicate availability, stated on the
\* payload's fields.
HasAvailability(c) ==
  /\ IsDict(c)
  /\ \/ \E key \in SlotKeys \cap DOMAIN c : Len(c[key]) > 0
     \/ \E key \in EarliestKeys \cap DOMAIN c : c[key] # ""

\* C3: at every point of the center loop, and so at its return, the result
\* list holds one SlotRecord for each center visited so far whose summary has
\* a non-empty slot list or a non-empty earliest date, in payload order, and
\* none for any other center.
C3_RecordIffAvailability ==
  cpc \in {"loop", "returned"} =>
    LET visited == SubSeq(centers, 1, k - 1)
        withAvail == SelectSeq(visited, HasAvailability)
    IN /\ Len(available) = Len(withAvail)
       /\ \A i \in 1..Len(withAvail) :
            available[i].center = CenterName(withAvail[i])

\* C3 witness: a check returned for a two-center payload whose first center
\* has neither slots nor an earliest date and whose second has; the result
\* holds the second only.
C3_Witness ==
  /\ cpc = "returned"
  /\ Len(centers) = 2
  /\ ~HasAvailability(centers[1]) /\ IsDict(centers[1])
  /\ HasAvailability(centers[2])
  /\ Len(available) = 1

\* The detail queries a check has issued, in order.
DetailCalls == SelectSeq(calls, LAMBDA c : c.op = "checkavailability")

\* A detail query that failed: no answer, a non-success status, a body that
\* is no JSON, or a body of another shape than a list or {"dates": [...]}.
DetailFailed(resp) ==
  \/ resp.kind \in {"exception", "non200", "malformed", "dict_nodates", "other"}
  \/ resp.kind = "dict" /\ ~resp.list

\* C11: a failed detail query never aborts the check, and the center it was
\* issued for still gets its SlotRecord, with the summary's earliest date and
\* the summary's slot list (so earliestDate "2025-06-01" without summary
\* slots gives earliest_date "2025-06-01" and slots []); a returned check has
\* queried and recorded every center with indicated availability.
C11_DetailFailureDegrades ==
  LET queries == DetailCalls
      indicated == SelectSeq(centers, HasAvailability)
  IN /\ \A i \in 1..Len(queries) :
          DetailFailed(queries[i].answer) =>
            /\ cpc # "raised"
            /\ i <= Len(available)
            /\ available[i].center = CenterName(indicated[i])
            /\ available[i].earliest_date = CenterEarliest(indicated[i])
            /\ available[i].slots = CenterSlots(indicated[i])
     /\ cpc = "returned" =>
          Len(queries) = Len(indicated) /\ Len(available) = Len(indicated)

\* The recognised field names of each attribute, the primary one first.
NameAliases     == <<"centerName", "name", "locationName">>
SlotAliases     == <<"slots", "availableSlots">>
EarliestAliases == <<"earliestDate", "firstAvailableDate">>

\* The aliases under which payload c carries a value, in that order; an
\* empty string or an empty list is no value.
Carrying(c, aliases, empty) ==
  SelectSeq(aliases, LAMBDA a : a \in DOMAIN c /\ c[a] # empty)

\* The payload that carries the values of c under the primary aliases only:
\* for each attribute, the value of the first alias that carries one.
Primary(c) ==
  LET n == Carrying(c, NameAliases, "")
      s == Carrying(c, SlotAliases, <<>>)
      e == Carrying(c, EarliestAliases, "")
  IN [key \in {a \in {"centerName"} : n # <<>>} |-> c[n[1]]]
     @@ [key \in {a \in {"slots"} : s # <<>>} |-> c[s[1]]]
     @@ [key \in {a \in {"earliestDate"} : e # <<>>} |-> c[e[1]]]

\* C12: for every center object the check has read, name, slot list and
\* earliest date are extracted as from the payload carrying the same values
\* under centerName, slots and earliestDate; an attribute no alias of which
\* is present gets its sentinel; and the SlotRecord of a center with
\* availability carries the name and the earliest date so extracted.
C12_AliasEquivalence ==
  cpc \in {"loop", "returned"} =>
    /\ \A i \in 1..Len(centers) :
         LET c == centers[i] IN
           IsDict(c) =>
             /\ CenterName(c) = CenterName(Primary(c))
             /\ CenterSlots(c) = CenterSlots(Primary(c))
             /\ CenterEarliest(c) = CenterEarliest(Primary(c))
             /\ DOMAIN c \cap NameKeys = {} => CenterName(c) = UNKNOWN_NAME
             /\ DOMAIN c \cap SlotKeys = {} => CenterSlots(c) = <<>>
             /\ DOMAIN c \cap EarliestKeys = {} => CenterEarliest(c) = ""
    /\ LET indicated == SelectSeq(centers, HasAvailability) IN
         \A j \in 1..Len(available) :
           LET p == Primary(indicated[j]) IN
             /\ available[j].center =
                  (IF "centerName" \in DOMAIN p THEN p.centerName ELSE UNKNOWN_NAME)
             /\ "earliestDate" \in DOMAIN p =>
                  available[j].earliest_date = p.earliestDate
             /\ DetailCalls[j].answer.kind = "exception" =>
                  available[j].slots =
                    (IF "slots" \in DOMAIN p THEN p.slots ELSE <<>>)

\* C12 witness: a returned check of a center that carries its name, slots
\* and earliest date under the secondary names only, next to an empty
\* centerName, and whose record has those values.
C12_Witness ==
  /\ cpc = "returned"
  /\ Len(centers) = 1
  /\ IsDict(centers[1])
  /\ DOMAIN centers[1] =
       {"centerName", "locationName", "availableSlots", "firstAvailableDate"}
  /\ centers[1].centerName = ""
  /\ Len(available) = 1
  /\ available[1] = [center |-> "Da Nang", earliest_date |-> "2025-06-05",
                     slots |-> <<"2025-06-03", "2025-06-09">>,
                     booking_url |-> portal_url(target)]

\* C13: the requests of a check are one login, sent without a token, then
\* one center query, then detail queries, each later request carrying the
\* token this check's own login returned; the detail queries are those of the
\* centers with indicated availability, in order; a check whose login failed
\* has sent the login only, one whose center query failed the login and the
\* center query only; and a check never holds the token of another check.
C13_LoginThenCentersThenDetails ==
  LET n == Len(calls)
      own == [by |-> chkId]
      indicated == SelectSeq(centers, HasAvailability)
  IN /\ token \in {NoToken, own}
     /\ cpc = "login" => n = 0
     /\ cpc = "centers" => n = 1 /\ token = own
     /\ cpc \in {"loop", "returned"} => n >= 2
     /\ n >= 1 => calls[1].op = "login" /\ calls[1].auth = NoToken
     /\ n >= 2 => calls[2].op = "checkslots"
     /\ \A i \in 2..n : calls[i].auth = own /\ token = own
     /\ \A i \in 3..n :
          /\ calls[i].op = "checkavailability"
          /\ k >= 1
          /\ i - 2 <= Len(indicated)
          /\ calls[i].center = CenterName(indicated[i - 2])
     /\ cpc = "returned" => n = 2 + Len(indicated)
     /\ cpc = "raised" /\ token = NoToken => n = 1
     /\ cpc = "raised" /\ token = own /\ k = 0 => n = 2

\* C13 witness: the second country's check has returned after its login,
\* its center query and two detail queries, the first country's check
\* having logged in too.
C13_Witness ==
  /\ pc = "checking"
  /\ chkId = 2
  /\ Len(results) = 1 /\ results[1].error.none
  /\ cpc = "returned"
  /\ Len(calls) = 4
  /\ calls[4].auth = [by |-> 2]

(* ---------------------------------------- is_daily_report_time, any time *)
AllTimes == {[hour |-> h, minute |-> m] : h \in 0..23, m \in 0..59}

InitTime ==
  /\ countries = <<>>
  /\ daily_report_hour \in 0..23
  /\ pc = "clock"
  /\ idx = 0
  /\ results = <<>>
  /\ jdx = 0
  /\ sent = <<>>
  /\ sendFailed = FALSE
  /\ clock = [hour |-> 0, minute |-> 0]
  /\ report = FALSE
  /\ ChkIdle
  /\ CmdIdle

\* is_daily_report_time(config["daily_report_hour"]) at some instant
CallIsDailyReportTime ==
  /\ pc = "clock"
  /\ \E now \in AllTimes :
       /\ clock' = now
       /\ report' = is_daily_report_time(daily_report_hour, now)
  /\ pc' = "clock_read"
  /\ UNCHANGED <<countries, daily_report_hour, idx, results, jdx, sent, sendFailed>>
  /\ UNCHANGED <<chkVars, cmdVars>>

NextTime == CallIsDailyReportTime

SpecTime == InitTime /\ [][NextTime]_vars

\* C4: for every report hour 0..23 and every instant, is_daily_report_time
\* is true exactly when the UTC+7 wall clock shows the configured hour and a
\* minute below 30, that is, in the first thirty minutes of that hour.
C4_TrueInFirstHalfOfReportHour ==
  pc = "clock_read" => (report <=> InWindow(clock))

\* C4 witness: report hour 3, read at 20:29 UTC (03:29 in UTC+7): true.
C4_Witness ==
  /\ pc = "clock_read"
  /\ daily_report_hour = 3
  /\ clock = [hour |-> 20, minute |-> 29]
  /\ report

(* ------------------------------------- telegram_handler.py: the commands *)
CHAT_ID   == "1001"
REPLY_CUT == 300

WHITESPACE == {" ", "\t", "\n"}
IsSpace(c) == c \in WHITESPACE

UPPER == <<"A", "B", "C", "D", "E", "F", "G", "H", "I", "J", "K", "L", "M",
           "N", "O", "P", "Q", "R", "S", "T", "U", "V", "W", "X", "Y", "Z">>
LOWER == <<"a", "b", "c", "d", "e", "f", "g", "h", "i", "j", "k", "l", "m",
           "n", "o", "p", "q", "r", "s", "t", "u", "v", "w", "x", "y", "z">>

\* str.lower()
LowerChar(c) ==
  IF \E i \in 1..Len(UPPER) : UPPER[i] = c
  THEN LOWER[CHOOSE i \in 1..Len(UPPER) : UPPER[i] = c]
  ELSE c
Lower(s) == [i \in 1..Len(s) |-> LowerChar(s[i])]

\* str.strip()
RECURSIVE LStrip(_)
LStrip(s) == IF s # <<>> /\ IsSpace(Head(s)) THEN LStrip(Tail(s)) ELSE s
RECURSIVE RStrip(_)
RStrip(s) ==
  IF s # <<>> /\ IsSpace(s[Len(s)]) THEN RStrip(SubSeq(s, 1, Len(s) - 1)) ELSE s
Strip(s) == RStrip(LStrip(s))

\* The characters of s before the first one in the set stops.
RECURSIVE TakeUntil(_, _)
TakeUntil(s, stops) ==
  IF s = <<>> \/ Head(s) \in stops THEN <<>>
  ELSE <<Head(s)>> \o TakeUntil(Tail(s), stops)

\* text.split()[0], for a text that is not empty after strip()
FirstWord(s) == TakeUntil(LStrip(s), WHITESPACE)

\* word.split("@")[0]
BeforeAt(s) == TakeUntil(s, {"@"})

\* raw_cmd = text.split()[0].split("@")[0].lower() if text else ""
Mut_raw_cmd_KeepHandle(text) ==
  IF text # <<>> THEN Lower(FirstWord(text)) ELSE <<>>
raw_cmd(text) ==
  IF text # <<>> THEN Lower(BeforeAt(FirstWord(text))) ELSE <<>>

\* raw_cmd.startswith("/")
StartsWithSlash(s) == s # <<>> /\ s[1] = "/"

COMMAND_MAP ==
  (<<"/", "f", "r", "a", "n", "c", "e">> :> "fra")
  @@ (<<"/", "p", "h", "a", "p">> :> "fra")
  @@ (<<"/", "i", "t", "a", "l", "y">> :> "ita")
  @@ (<<"/", "i", "t", "a", "l", "i", "a">> :> "ita")
  @@ (<<"/", "s", "p", "a", "i", "n">> :> "esp")
  @@ (<<"/", "t", "b", "n">> :> "esp")
  @@ (<<"/", "p", "o", "r", "t", "u", "g", "a", "l">> :> "prt")
  @@ (<<"/", "b", "d", "n">> :> "prt")

CMD_HELP   == <<"/", "h", "e", "l", "p">>
CMD_ALL    == <<"/", "a", "l", "l">>
CMD_STATUS == <<"/", "s", "t", "a", "t", "u", "s">>

\* The branch of the dispatch a command takes (lines 180-206).
RouteOf(cmd) ==
  IF ~StartsWithSlash(cmd) THEN "ignored"
  ELSE IF cmd = CMD_HELP THEN "help"
  ELSE IF cmd \in {CMD_ALL, CMD_STATUS} THEN "all"
  ELSE IF cmd \in DOMAIN COMMAND_MAP THEN "country"
  ELSE "unknown"

\* if update_id in processed or msg_cid != chat_id: continue
Mut_Skips_NoDedup(u) == u.chat # CHAT_ID
Skips(u) == u.update_id \in processed \/ u.chat # CHAT_ID

(* message texts of the responder *)
HelpReply          == [kind |-> "help"]
AnnounceReply(n)   == [kind |-> "announce", n |-> n]
UnknownReply(cmd)  == [kind |-> "unknown", cmd |-> cmd]
CheckingReply(tgt) == [kind |-> "checking", target_name |-> CountryName(tgt)]
NoSlotsReply(tgt)  == [kind |-> "no_slots", target_name |-> CountryName(tgt)]
SlotsReply(tgt, slots) ==
  [kind |-> "slots", target_name |-> CountryName(tgt),
   entries |-> [i \in 1..Len(slots) |->
                  [center |-> slots[i].center,
                   earliest |-> slots[i].earliest_date,
                   url |-> slots[i].booking_url]]]
ErrorReply(tgt, e) ==
  [kind |-> "error", target_name |-> CountryName(tgt), msg |-> e.msg,
   shown |-> IF StrLen(e.msg) > REPLY_CUT THEN REPLY_CUT ELSE StrLen(e.msg)]

\* send_message: a bare post; an exception leaves it, and sends the
\* responder to `next` otherwise.
SendMessage(msg, next) ==
  /\ replies' = Append(replies, msg)
  /\ \E o \in PostOutcomes :
       hpc' = IF o = "exception" THEN "crashed" ELSE next

\* updates = await get_recent_updates(...); if not updates: return
GetRecentUpdates ==
  /\ hpc = "fetch"
  /\ \/ \E n \in 0..MaxUpdates :
          /\ remaining' = n
          /\ hpc' = IF n = 0 THEN "done" ELSE "loop"
     \/ /\ hpc' = "crashed"
        /\ UNCHANGED remaining
  /\ UNCHANGED <<update, processed, route, sweepIdx, dispatched, replies, checks>>
  /\ UNCHANGED <<mainVars, chkVars>>

\* check_country_and_reply up to its await of the check: the checker is
\* made, the "checking" message is sent.
CheckAndReplyCall(code) ==
  /\ NewChecker(code)
  /\ checks' = Append(checks, code)
  /\ replies' = Append(replies, CheckingReply(code))
  /\ \E o \in PostOutcomes :
       IF o = "exception"
       THEN hpc' = "crashed" /\ cpc' = "idle"
       ELSE hpc' = "checking" /\ cpc' = "login"

\* One iteration of "for update in updates" up to its first await of a
\* check; the update is the next element of the fetched list.
NextUpdate(updates) ==
  /\ hpc = "loop"
  /\ remaining > 0
  /\ remaining' = remaining - 1
  /\ \E u \in updates :
       /\ update' = u
       /\ IF Skips(u)
          THEN /\ route' = "skipped"
               /\ replies' = <<>>
               /\ checks' = <<>>
               /\ UNCHANGED <<processed, dispatched, hpc, sweepIdx, chkVars>>
          ELSE /\ processed' = processed \cup {u.update_id}
               /\ dispatched' = Append(dispatched, [update_id |-> u.update_id, chat |-> u.chat])
               /\ LET cmd == raw_cmd(Strip(u.text)) IN
                    /\ route' = RouteOf(cmd)
                    /\ CASE RouteOf(cmd) = "ignored" ->
                              /\ replies' = <<>>
                              /\ checks' = <<>>
                              /\ UNCHANGED <<hpc, sweepIdx, chkVars>>
                         [] RouteOf(cmd) = "help" ->
                              /\ replies' = <<HelpReply>>
                              /\ \E o \in PostOutcomes :
                                   hpc' = IF o = "exception" THEN "crashed" ELSE "loop"
                              /\ checks' = <<>>
                              /\ UNCHANGED <<sweepIdx, chkVars>>
                         [] RouteOf(cmd) = "all" ->
                              /\ replies' = <<AnnounceReply(Len(countries))>>
                              /\ \E o \in PostOutcomes :
                                   hpc' = IF o = "exception" THEN "crashed" ELSE "all_loop"
                              /\ checks' = <<>>
                              /\ sweepIdx' = 1
                              /\ UNCHANGED chkVars
                         [] RouteOf(cmd) = "country" ->
                              /\ NewChecker(COMMAND_MAP[cmd])
                              /\ checks' = <<COMMAND_MAP[cmd]>>
                              /\ replies' = <<CheckingReply(COMMAND_MAP[cmd])>>
                              /\ \E o \in PostOutcomes :
                                   IF o = "exception"
                                   THEN hpc' = "crashed" /\ cpc' = "idle"
                                   ELSE hpc' = "checking" /\ cpc' = "login"
                              /\ UNCHANGED sweepIdx
                         [] OTHER ->
                              /\ replies' = <<UnknownReply(cmd)>>
                              /\ \E o \in PostOutcomes :
                                   hpc' = IF o = "exception" THEN "crashed" ELSE "loop"
                              /\ checks' = <<>>
                              /\ UNCHANGED <<sweepIdx, chkVars>>
  /\ UNCHANGED mainVars

\* for country in countries: await check_country_and_reply(...) (line 195)
AllNext ==
  /\ hpc = "all_loop"
  /\ sweepIdx <= Len(countries)
  /\ CheckAndReplyCall(countries[sweepIdx])
  /\ UNCHANGED <<remaining, update, processed, route, sweepIdx, dispatched>>
  /\ UNCHANGED mainVars

\* the /all loop ends
AllEnd ==
  /\ hpc = "all_loop"
  /\ sweepIdx > Len(countries)
  /\ hpc' = "loop"
  /\ UNCHANGED <<remaining, update, processed, route, sweepIdx, dispatched, replies, checks>>
  /\ UNCHANGED <<mainVars, chkVars>>

\* check_country_and_reply returns: its checker is no longer referenced.
DropChecker ==
  /\ target' = ""
  /\ token' = NoToken
  /\ cpc' = "idle"
  /\ centers' = <<>>
  /\ k' = 0
  /\ available' = <<>>
  /\ raised' = NoExc
  /\ calls' = <<>>
  /\ UNCHANGED chkId

\* check_country_and_reply from its await on (lines 105-131): the reply,
\* the except clause, and for /all the pause.
ReplyResult ==
  /\ hpc = "checking"
  /\ cpc \in {"returned", "raised"}
  /\ LET after == IF route = "all" THEN "all_loop" ELSE "loop"
         first == IF available # <<>> THEN SlotsReply(target, available)
                  ELSE NoSlotsReply(target)
     IN IF cpc = "raised"
        THEN SendMessage(ErrorReply(target, raised), after)
        ELSE \/ /\ replies' = Append(replies, first)
                /\ hpc' = after
             \/ \E e \in TransportErrors :
                  /\ replies' = replies \o <<first, ErrorReply(target, e)>>
                  /\ \E o \in PostOutcomes :
                       hpc' = IF o = "exception" THEN "crashed" ELSE after
  /\ sweepIdx' = IF route = "all" THEN sweepIdx + 1 ELSE sweepIdx
  /\ DropChecker
  /\ UNCHANGED <<remaining, update, processed, route, dispatched, checks>>
  /\ UNCHANGED mainVars

\* the update loop ends
LoopEnd ==
  /\ hpc = "loop"
  /\ remaining = 0
  /\ hpc' = "done"
  /\ UNCHANGED <<remaining, update, processed, route, sweepIdx, dispatched, replies, checks>>
  /\ UNCHANGED <<mainVars, chkVars>>

(* ---------------------------------------- inputs of a Command Responder *)
TEXT_FRANCE_AT == <<"/", "F", "r", "a", "n", "c", "e", "@", "M", "y", "B", "o", "t", " ", "h", "e", "l", "l", "o">>
TEXT_PLAIN == <<"j", "u", "s", "t", " ", "t", "e", "x", "t">>
TEXT_UNKNOWN == <<"/", "u", "n", "k", "n", "o", "w", "n">>
TEXT_EMPTY == <<>>
TEXT_HELP == <<"/", "h", "e", "l", "p">>
TEXT_ALL == <<"/", "a", "l", "l">>
TEXT_STATUS == <<"/", "s", "t", "a", "t", "u", "s">>
TEXT_ITALY_UPPER == <<"/", "I", "T", "A", "L", "Y", "\t", "n", "o", "w">>
TEXT_AT_FIRST == <<"@", "b", "o", "t", " ", "/", "h", "e", "l", "p">>
TEXT_SLASH == <<"/">>
TEXT_TBN_AT == <<"/", "t", "b", "n", "@", "x", "@", "y">>
TEXT_MID_SLASH == <<"x", "/", "h", "e", "l", "p">>

Texts == {TEXT_FRANCE_AT, TEXT_PLAIN, TEXT_UNKNOWN,
          TEXT_EMPTY, TEXT_HELP, TEXT_ALL,
          TEXT_STATUS, TEXT_ITALY_UPPER, TEXT_AT_FIRST,
          TEXT_SLASH, TEXT_TBN_AT, TEXT_MID_SLASH}

\* Updates of the fetched list: an id, the chat it came from, its text.
Updates ==
  [update_id : 1..MaxUpdateId, chat : {CHAT_ID, "2002"}, text : Texts]

\* login answers of a responder run
CmdLogin ==
  {[kind |-> "token"], [kind |-> "http_error"],
   [kind |-> "no_token", msg |-> MSG_NO_TOKEN_LONG],
   [kind |-> "transport", exc |-> Exc("ReadTimeout", "")]}

CmdRaws ==
  {[isList |-> TRUE, body |-> <<>>],
   [isList |-> FALSE,
    body |-> [centerName |-> "Hanoi", slots |-> <<>>, earliestDate |-> "2025-06-01"]]}

CmdDetails == {[kind |-> "exception"]}

InitCmd ==
  /\ countries = CMD_TARGETS
  /\ daily_report_hour = 12
  /\ pc = "idle"
  /\ idx = 0
  /\ results = <<>>
  /\ jdx = 0
  /\ sent = <<>>
  /\ sendFailed = FALSE
  /\ clock = [hour |-> 0, minute |-> 0]
  /\ report = FALSE
  /\ ChkIdle
  /\ hpc = "fetch"
  /\ remaining = 0
  /\ update = NoUpdate
  /\ processed = {}
  /\ route = "none"
  /\ sweepIdx = 0
  /\ dispatched = <<>>
  /\ replies = <<>>
  /\ checks = <<>>

NextCmd ==
  \/ GetRecentUpdates
  \/ NextUpdate(Updates)
  \/ AllNext
  \/ AllEnd
  \/ Login(CmdLogin) /\ UNCHANGED <<mainVars, cmdVars>>
  \/ GetCenters(CmdRaws) /\ UNCHANGED <<mainVars, cmdVars>>
  \/ CenterStep(CmdDetails) /\ UNCHANGED <<mainVars, cmdVars>>
  \/ ReturnAvailable /\ UNCHANGED <<mainVars, cmdVars>>
  \/ ReplyResult
  \/ LoopEnd

SpecCmd == InitCmd /\ [][NextCmd]_vars

(* ----------------------------------- claims on the Command Responder Run *)
\* The command of a text, stated on the text: the characters from its first
\* non-blank one up to the next blank or "@", lower-cased.
CommandOf(text) ==
  LET solid == {i \in 1..Len(text) : ~IsSpace(text[i])}
  IN IF solid = {} THEN <<>>
     ELSE LET first == CHOOSE i \in solid : \A j \in solid : i <= j
              stops == {j \in first..Len(text) : IsSpace(text[j]) \/ text[j] = "@"}
              last  == IF stops = {} THEN Len(text)
                       ELSE (CHOOSE j \in stops : \A m \in stops : j <= m) - 1
          IN [i \in 1..(last - first + 1) |-> LowerChar(text[first + i - 1])]

\* The loop is through with the current update, which passed the filter.
Handled ==
  /\ hpc \in {"loop", "done"}
  /\ update # NoUpdate
  /\ route # "skipped"

ReplyKinds == {replies[i].kind : i \in 1..Len(replies)}

\* What each path leaves behind for the update it handled.
TookPath(path, cmd) ==
  CASE path = "country" ->
         /\ checks = <<COMMAND_MAP[cmd]>>
         /\ Len(replies) >= 2
         /\ replies[1] = CheckingReply(COMMAND_MAP[cmd])
         /\ ReplyKinds \subseteq {"checking", "slots", "no_slots", "error"}
    [] path = "all" ->
         /\ checks = countries
         /\ replies[1] = AnnounceReply(Len(countries))
         /\ Len(replies) >= 1 + 2 * Len(countries)
         /\ ReplyKinds \subseteq {"announce", "checking", "slots", "no_slots", "error"}
    [] path = "help" ->
         /\ checks = <<>>
         /\ replies = <<HelpReply>>
    [] path = "unknown" ->
         /\ checks = <<>>
         /\ replies = <<UnknownReply(cmd)>>
    [] path = "ignored" ->
         /\ checks = <<>>
         /\ replies = <<>>

\* The path the claim gives a command: "/all" alone starts the sweep.
ClaimedPath(cmd) ==
  IF cmd \in DOMAIN COMMAND_MAP THEN "country"
  ELSE IF cmd = CMD_ALL THEN "all"
  ELSE IF cmd = CMD_HELP THEN "help"
  ELSE IF cmd # <<>> /\ cmd[1] = "/" THEN "unknown"
  ELSE "ignored"

\* The same, with "/status" starting the sweep as well.
AmendedPath(cmd) ==
  IF cmd = CMD_STATUS THEN "all" ELSE ClaimedPath(cmd)

\* C6 (as claimed): every processed text is routed by its command (first
\* token, cut at "@", lower-cased) to one path: a country alias to one check
\* of that country and its replies, "/all" to the full sweep, "/help" to the
\* command list, any other "/" command to one 'unrecognized command' reply,
\* anything else to no reply and no check.
C6_RoutedToOnePath_AsClaimed ==
  Handled => TookPath(ClaimedPath(CommandOf(update.text)), CommandOf(update.text))

\* C6 (amended): as claimed, except that "/status" runs the full sweep like
\* "/all" and gets no 'unrecognized command' reply.
C6_RoutedToOnePath ==
  Handled => TookPath(AmendedPath(CommandOf(update.text)), CommandOf(update.text))

\* C6 witness: "/France@MyBot hello" was handled as /france: one check of
\* fra, the "checking" message and one result reply.
C6_Witness ==
  /\ Handled
  /\ update.text = TEXT_FRANCE_AT
  /\ checks = <<"fra">>
  /\ Len(replies) = 2
  /\ replies[2].kind = "slots"

\* C7: within one run no update id is dispatched twice, only updates of the
\* configured chat are dispatched, and an update of another chat produces no
\* reply and no check.
C7_DispatchedOncePerIdOwnChatOnly ==
  /\ \A i, j \in 1..Len(dispatched) :
       i # j => dispatched[i].update_id # dispatched[j].update_id
  /\ \A i \in 1..Len(dispatched) : dispatched[i].chat = CHAT_ID
  /\ update.chat # CHAT_ID =>
       route \in {"none", "skipped"} /\ replies = <<>> /\ checks = <<>>

\* C7 witness: a list of two updates with the same id from the configured
\* chat, both commands: the first was dispatched, the second skipped.
C7_Witness ==
  /\ hpc = "done"
  /\ Len(dispatched) = 1
  /\ update.update_id = dispatched[1].update_id
  /\ update.chat = CHAT_ID
  /\ update.text = TEXT_HELP
  /\ route = "skipped"
  /\ replies = <<>>
====
